---- MODULE Spec2Model ----
(***************************************************************************)
(* A model of the term-rend-rt path tracer (src/src/main.rs, src/src/math.rs). *)
(*                                                                         *)
(* Numbers.  Every f32 of the program is a fixed-point integer counting    *)
(* units of 1/One = 0.0001, so EPSILON (0.0001) is 1 and the 0.001 of       *)
(* find_closest is 10.  Products, quotients and square roots are rounded   *)
(* to that grid, as the program's are rounded to the f32 grid.  A Color    *)
(* additionally carries a binary exponent e (its value is m / (One * 2^e)) *)
(* because the integrator halves a colour up to BOUNCE_AMOUNT times and a  *)
(* float multiplication by 0.5 is exact.                                   *)
(* NaN is not modelled: every ray of the model has a non-zero direction.   *)
(***************************************************************************)
EXTENDS Integers, Sequences, FiniteSets, TLC

\* ------------------------------------------------------------------------
\* f32 arithmetic on the fixed-point grid
\* ------------------------------------------------------------------------

\* 1.0
One == 10000

\* 0.5 (main.rs:150, main.rs:155)
Half == One \div 2

Abs(a) == IF a < 0 THEN -a ELSE a

Sign(a) == IF a < 0 THEN -1 ELSE 1

Min(a, b) == IF a <= b THEN a ELSE b

\* The operators below hand their arguments to functions: a function is
\* applied to values, so each argument is computed once however often the
\* body uses it.

\* |a| * |b| / One rounded to nearest, computed in four partial products so
\* that no intermediate leaves 32 bits.
MulMag[p \in Nat \X Nat] ==
    LET a1 == p[1] \div One
        a0 == p[1] % One
        b1 == p[2] \div One
        b0 == p[2] % One
    IN  a1 * b1 * One + a1 * b0 + a0 * b1 + ((a0 * b0 + Half) \div One)

FxMulOf[p \in Int \X Int] == Sign(p[1]) * Sign(p[2]) * MulMag[<<Abs(p[1]), Abs(p[2])>>]

\* f32 `*`
FxMul(a, b) == FxMulOf[<<a, b>>]

\* |a| * One / |b| rounded to nearest, by long division in two digits of 100.
DivMag[p \in Nat \X Nat] ==
    LET q0 == p[1] \div p[2]
        r0 == p[1] % p[2]
        q1 == (r0 * 100) \div p[2]
        r1 == (r0 * 100) % p[2]
        q2 == (r1 * 100 + (p[2] \div 2)) \div p[2]
    IN  q0 * One + q1 * 100 + q2

FxDivOf[p \in Int \X Int] == Sign(p[1]) * Sign(p[2]) * DivMag[<<Abs(p[1]), Abs(p[2])>>]

\* f32 `/` (the divisor is never 0 where the program divides)
FxDiv(a, b) == FxDivOf[<<a, b>>]

\* r * r <= a * One, without forming either product in full.
SqLeq[p \in Nat \X Nat] ==
    LET r1 == p[1] \div One
        r0 == p[1] % One
        whole == r1 * r1 * One + 2 * r1 * r0 + ((r0 * r0) \div One)
        frac == (r0 * r0) % One
    IN  whole < p[2] \/ (whole = p[2] /\ frac = 0)

\* The largest grid value in [lo, hi) whose square does not exceed a, by
\* bisection; p is <<a, lo, hi>>.
SqrtSearch[p \in Nat \X Nat \X Nat] ==
    IF p[3] - p[2] <= 1 THEN p[2]
    ELSE IF SqLeq[<<(p[2] + p[3]) \div 2, p[1]>>]
         THEN SqrtSearch[<<p[1], (p[2] + p[3]) \div 2, p[3]>>]
         ELSE SqrtSearch[<<p[1], p[2], (p[2] + p[3]) \div 2>>]

\* f32::sqrt of a non-negative number
FxSqrt(a) == SqrtSearch[<<a, 0, 4000000>>]

\* ------------------------------------------------------------------------
\* glam::Vec3
\* ------------------------------------------------------------------------

Vec3Set == Int \X Int \X Int

Vec3(x, y, z) == <<x, y, z>>

\* Vec3 from whole numbers
V(x, y, z) == <<x * One, y * One, z * One>>

VAddOf[p \in Vec3Set \X Vec3Set] ==
    <<p[1][1] + p[2][1], p[1][2] + p[2][2], p[1][3] + p[2][3]>>

VAdd(a, b) == VAddOf[<<a, b>>]

VSubOf[p \in Vec3Set \X Vec3Set] ==
    <<p[1][1] - p[2][1], p[1][2] - p[2][2], p[1][3] - p[2][3]>>

VSub(a, b) == VSubOf[<<a, b>>]

VScaleOf[p \in Vec3Set \X Int] ==
    <<FxMul(p[1][1], p[2]), FxMul(p[1][2], p[2]), FxMul(p[1][3], p[2])>>

\* Vec3 * f32
VScale(a, k) == VScaleOf[<<a, k>>]

DotOf[p \in Vec3Set \X Vec3Set] ==
    FxMul(p[1][1], p[2][1]) + FxMul(p[1][2], p[2][2]) + FxMul(p[1][3], p[2][3])

Dot(a, b) == DotOf[<<a, b>>]

CrossOf[p \in Vec3Set \X Vec3Set] ==
    <<FxMul(p[1][2], p[2][3]) - FxMul(p[1][3], p[2][2]),
      FxMul(p[1][3], p[2][1]) - FxMul(p[1][1], p[2][3]),
      FxMul(p[1][1], p[2][2]) - FxMul(p[1][2], p[2][1])>>

Cross(a, b) == CrossOf[<<a, b>>]

LengthSquared(a) == Dot(a, a)

Length(a) == FxSqrt(LengthSquared(a))

VDivOf[p \in Vec3Set \X Int] ==
    <<FxDiv(p[1][1], p[2]), FxDiv(p[1][2], p[2]), FxDiv(p[1][3], p[2])>>

\* Vec3::normalize: the vector divided by its length (a non-zero vector)
Normalize(a) == VDivOf[<<a, Length(a)>>]

\* ------------------------------------------------------------------------
\* Color, Material, Ray (math.rs:5-86)
\* ------------------------------------------------------------------------

Pow2(n) == 2 ^ n

\* A mantissa moved n binary places down; beyond the width nothing is left.
Shr(m, n) == IF n >= 31 THEN 0 ELSE m \div Pow2(n)

RECURSIVE Canon(_)
\* The one representation of a colour value: the least exponent that keeps
\* the mantissas whole.
Canon(c) ==
    IF c.r = 0 /\ c.g = 0 /\ c.b = 0 THEN [r |-> 0, g |-> 0, b |-> 0, e |-> 0]
    ELSE IF c.e > 0 /\ c.r % 2 = 0 /\ c.g % 2 = 0 /\ c.b % 2 = 0
         THEN Canon([r |-> c.r \div 2, g |-> c.g \div 2, b |-> c.b \div 2, e |-> c.e - 1])
         ELSE c

\* Color { r, g, b } from grid values
Color(r, g, b) == [r |-> r, g |-> g, b |-> b, e |-> 0]

BLACK == Color(0, 0, 0)

WHITE == Color(One, One, One)

\* impl Mul<f32> for Color: a factor of 0.5 only lowers the exponent, as in
\* binary floating point; any other factor rounds each channel.
ColorMul(c, rhs) ==
    IF rhs = Half
    THEN Canon([c EXCEPT !.e = @ + 1])
    ELSE Canon([r |-> FxMul(c.r, rhs), g |-> FxMul(c.g, rhs), b |-> FxMul(c.b, rhs), e |-> c.e])

\* impl Add<Color> for Color: the operand of lesser magnitude is aligned to
\* the other's exponent.
ColorAdd(c, rhs) ==
    LET e == Min(c.e, rhs.e)
    IN  Canon([r |-> Shr(c.r, c.e - e) + Shr(rhs.r, rhs.e - e),
               g |-> Shr(c.g, c.e - e) + Shr(rhs.g, rhs.e - e),
               b |-> Shr(c.b, c.e - e) + Shr(rhs.b, rhs.e - e),
               e |-> e])

Material(color, metalness) == [color |-> color, metalness |-> metalness]

Ray(pos, dir) == [pos |-> pos, dir |-> dir]

\* Ray::normalize
RayNormalize(ray) == [ray EXCEPT !.dir = Normalize(ray.dir)]

\* Ray::mirror without the two normalize calls
MirrorKeepsLength(ray, normal) ==
    [ray EXCEPT !.dir = VSub(ray.dir, VScale(normal, FxMul(2 * One, Dot(ray.dir, normal))))]

\* Ray::mirror
Mirror(ray, normal) ==
    LET self == RayNormalize(ray)
        n == Normalize(normal)
    IN  [self EXCEPT !.dir = VSub(self.dir, VScale(n, FxMul(2 * One, Dot(self.dir, n))))]

\* ------------------------------------------------------------------------
\* Renderable::intersect for Tri, Sphere, Plane (math.rs:88-198)
\* ------------------------------------------------------------------------

\* 0.0001
EPSILON == 1

Tri(a, b, c, material) == [kind |-> "Tri", a |-> a, b |-> b, c |-> c, material |-> material]

Sphere(pos, rad, material) == [kind |-> "Sphere", pos |-> pos, rad |-> rad, material |-> material]

Plane(pos, norm, material) == [kind |-> "Plane", pos |-> pos, norm |-> norm, material |-> material]

\* Option<(f32, Vec3, Material)>
None == [hit |-> FALSE, t |-> 0, n |-> <<0, 0, 0>>, material |-> Material(BLACK, 0)]

Some(t, n, material) == [hit |-> TRUE, t |-> t, n |-> n, material |-> material]

\* impl Renderable for Tri
TriIntersect(self, ray) ==
    LET dir == Normalize(ray.dir)
        edge1 == VSub(self.b, self.a)
        edge2 == VSub(self.c, self.a)
        h == Cross(dir, edge2)
        a == Dot(edge1, h)
    IN  IF a > -EPSILON /\ a < EPSILON THEN None
        ELSE LET f == FxDiv(One, a)
                 s == VSub(ray.pos, self.a)
                 u == FxMul(f, Dot(s, h))
             IN  IF u < 0 \/ u > One THEN None
                 ELSE LET q == Cross(s, edge1)
                          v == FxMul(f, Dot(dir, q))
                      IN  IF v < 0 \/ u + v > One THEN None
                          ELSE LET t == FxMul(f, Dot(edge2, q))
                               IN  IF t > EPSILON
                                   THEN Some(t, Cross(edge1, edge2), self.material)
                                   ELSE None

\* impl Renderable for Sphere
SphereIntersect(self, ray) ==
    LET dir == Normalize(ray.dir)
        l_vec == VSub(self.pos, ray.pos)
        l_l == Length(l_vec)
        tc == Dot(l_vec, dir)
    IN  IF tc < 0 THEN None
        ELSE LET d2 == Abs(FxMul(tc, tc) - FxMul(l_l, l_l))
                 rad2 == FxMul(self.rad, self.rad)
             IN  IF d2 > rad2 THEN None
                 ELSE LET t1c == FxSqrt(rad2 - d2)
                          t == tc - t1c
                          p == VAdd(ray.pos, VScale(dir, t))
                      IN  Some(t, VSub(p, self.pos), self.material)

\* impl Renderable for Plane
PlaneIntersect(self, ray) ==
    LET denom == Dot(self.norm, ray.dir)
    IN  IF Abs(denom) > EPSILON
        THEN LET t == FxDiv(Dot(VSub(self.pos, ray.pos), self.norm), denom)
             IN  IF t >= 0 THEN Some(t - EPSILON, self.norm, self.material) ELSE None
        ELSE None

\* dyn Renderable dispatch
Intersect(prim, ray) ==
    CASE prim.kind = "Tri" -> TriIntersect(prim, ray)
      [] prim.kind = "Sphere" -> SphereIntersect(prim, ray)
      [] prim.kind = "Plane" -> PlaneIntersect(prim, ray)

\* ------------------------------------------------------------------------
\* find_closest (main.rs:161-167)
\* ------------------------------------------------------------------------

\* 0.001
HIT_MIN == 10

\* the second filter_map's test, with no threshold at all
TooCloseNever(i) == FALSE

\* the second filter_map's test: i.0 < 0.001
TooClose(i) == i.t < HIT_MIN

RECURSIVE MinBy(_, _, _)
\* Iterator::min_by over the surviving hits with total_cmp on t: the first
\* of several equal minima is kept.
MinBy(scene, ray, k) ==
    IF k > Len(scene) THEN None
    ELSE LET i == Intersect(scene[k], ray)
             rest == MinBy(scene, ray, k + 1)
         IN  IF ~i.hit \/ TooClose(i) THEN rest
             ELSE IF rest.hit /\ rest.t < i.t THEN rest
             ELSE i

\* find_closest returning the first surviving hit instead of the least
FindFirst(scene, ray) ==
    LET S == {k \in 1..Len(scene) : Intersect(scene[k], ray).hit /\ ~TooClose(Intersect(scene[k], ray))}
    IN  IF S = {} THEN None
        ELSE Intersect(scene[CHOOSE k \in S : \A j \in S : k <= j], ray)

FindClosest(scene, ray) == MinBy(scene, ray, 1)

\* ------------------------------------------------------------------------
\* Program constants (main.rs:10-23)
\* ------------------------------------------------------------------------

SCREEN_HEIGHT == 1080

SCREEN_WIDTH == 1920

BOUNCE_AMOUNT == 70

SAMPLES_PER_PIXEL == 100

SKY_COL == Color(Half, 7000, One)

PIXEL_SIZE == FxDiv(One, SCREEN_WIDTH * One)

PIXEL_OFF_HEIGHT == FxMul(PIXEL_SIZE, FxDiv(SCREEN_HEIGHT * One, 2 * One))

\* ------------------------------------------------------------------------
\* The random source: rand::random::<f32>() returns one of these values of
\* [0, 1) on each call.
\* ------------------------------------------------------------------------

RandomF32 == {500, 7500}

\* random_vec(min, max): three independent draws
RandomVec(min, max) ==
    LET diff == max - min
    IN  {<<FxMul(r1, diff) + min, FxMul(r2, diff) + min, FxMul(r3, diff) + min>> :
            r1 \in RandomF32, r2 \in RandomF32, r3 \in RandomF32}

\* the loop test of random_vec_in_hemisphere: v.length_squared() >= 1.0
Rejected(v) == LengthSquared(v) >= One

\* ------------------------------------------------------------------------
\* State
\* ------------------------------------------------------------------------

VARIABLES
    scene,      \* the Scene, in view space, read-only once built
    pc,         \* where the program is
    ray,        \* the ray argument of the innermost cast_ray_recursive call
    d,          \* the d argument of the cast_ray_recursive call now running
    d0,         \* the d argument of the outermost call
    closest,    \* find_closest's result in the innermost call
    res_p,      \* res_p of the innermost call that hit
    v,          \* the v of random_vec_in_hemisphere's loop
    ret,        \* the Color being returned
    nCalls,     \* calls of cast_ray_recursive made for the current path
    nTests,     \* calls of find_closest made for the current path
    outcome,    \* how the innermost call ended: "miss" or "exhausted"
    mats,       \* the mat bound in each suspended caller, innermost first
    px, py,     \* the pixel being rendered (main's x and y)
    s,          \* main's sample counter
    pixel_col,  \* main's accumulator
    sampleSum,  \* the sum of the colours cast_ray_recursive returned to main
    img,        \* what put_pixel received
    mIn, mNormal, mOut   \* Ray::mirror's receiver, argument and result

castVars == <<ray, d, closest, res_p, v, ret, nCalls, nTests, outcome, mats>>

pixelVars == <<px, py, s, pixel_col, sampleSum, img>>

mirrorVars == <<mIn, mNormal, mOut>>

vars == <<scene, pc, d0, castVars, pixelVars, mirrorVars>>

\* ------------------------------------------------------------------------
\* cast_ray_recursive (main.rs:135-159), one action per step
\* ------------------------------------------------------------------------

\* the depth test, off by one
ExhaustedLate(depth) == depth = BOUNCE_AMOUNT + 1

\* if d == BOUNCE_AMOUNT
Exhausted(depth) == depth = BOUNCE_AMOUNT

\* the None arm with the interpolation the other way round
SkyFlipped(r) ==
    LET unit_dir == Normalize(r.dir)
        t == FxMul(Half, unit_dir[2] + One)
    IN  ColorAdd(ColorMul(WHITE, t), ColorMul(SKY_COL, One - t))

\* the None arm: the sky gradient
Sky(r) ==
    LET unit_dir == Normalize(r.dir)
        t == FxMul(Half, unit_dir[2] + One)
    IN  ColorAdd(ColorMul(WHITE, One - t), ColorMul(SKY_COL, t))

\* the bounce attenuated by the material's colour as well
AttenuateByMaterial(c, mat) ==
    LET h == ColorMul(c, Half)
    IN  Canon([r |-> FxMul(h.r, mat.color.r), g |-> FxMul(h.g, mat.color.g),
               b |-> FxMul(h.b, mat.color.b), e |-> h.e])

\* `cast_ray_recursive(..) * 0.5` in the Some arm; mat is bound and unused
Attenuate(c, mat) == ColorMul(c, Half)

\* let res_p = ray.pos + ray.dir * t
HitPoint(r, t) == VAdd(r.pos, VScale(r.dir, t))

\* a recursive call whose depth does not grow
SameDepth(depth) == depth

\* d + 1
NextDepth(depth) == depth + 1

\* the ray of the recursive call
BounceRay(p, n, unit) ==
    LET target == VAdd(VAdd(p, n), unit)
    IN  Ray(p, VSub(target, p))

CastExhausted ==
    /\ pc = "call"
    /\ Exhausted(d)
    /\ ret' = BLACK
    /\ outcome' = "exhausted"
    /\ pc' = "return"
    /\ UNCHANGED <<scene, d0, ray, d, closest, res_p, v, nCalls, nTests, mats, pixelVars, mirrorVars>>

CastFindClosest ==
    /\ pc = "call"
    /\ ~Exhausted(d)
    /\ closest' = FindClosest(scene, ray)
    /\ nTests' = nTests + 1
    /\ pc' = "match"
    /\ UNCHANGED <<scene, d0, ray, d, res_p, v, ret, nCalls, outcome, mats, pixelVars, mirrorVars>>

CastHit ==
    /\ pc = "match"
    /\ closest.hit
    /\ res_p' = HitPoint(ray, closest.t)
    /\ pc' = "hemisphere"
    /\ UNCHANGED <<scene, d0, ray, d, closest, v, ret, nCalls, nTests, outcome, mats, pixelVars, mirrorVars>>

CastMiss ==
    /\ pc = "match"
    /\ ~closest.hit
    /\ ret' = Sky(ray)
    /\ outcome' = "miss"
    /\ pc' = "return"
    /\ UNCHANGED <<scene, d0, ray, d, closest, res_p, v, nCalls, nTests, mats, pixelVars, mirrorVars>>

\* random_vec_in_hemisphere: let v = random_vec(-1.0, 1.0)
HemisphereDraw ==
    /\ pc = "hemisphere"
    /\ \E w \in RandomVec(-One, One) : v' = w
    /\ pc' = "test"
    /\ UNCHANGED <<scene, d0, ray, d, closest, res_p, ret, nCalls, nTests, outcome, mats, pixelVars, mirrorVars>>

\* random_vec_in_hemisphere: continue; the iteration's v is dropped
HemisphereReject ==
    /\ pc = "test"
    /\ Rejected(v)
    /\ v' = V(0, 0, 0)
    /\ pc' = "hemisphere"
    /\ UNCHANGED <<scene, d0, ray, d, closest, res_p, ret, nCalls, nTests, outcome, mats, pixelVars, mirrorVars>>

\* random_vec_in_hemisphere returns v.normalize() and the recursive call starts
CastRecurse ==
    /\ pc = "test"
    /\ ~Rejected(v)
    /\ ray' = BounceRay(res_p, closest.n, Normalize(v))
    /\ d' = NextDepth(d)
    /\ nCalls' = nCalls + 1
    /\ mats' = <<closest.material>> \o mats
    /\ pc' = "call"
    /\ UNCHANGED <<scene, d0, closest, res_p, v, ret, nTests, outcome, pixelVars, mirrorVars>>

\* a recursive call returns into the Some arm of its caller
CastReturn ==
    /\ pc = "return"
    /\ d > d0
    /\ ret' = Attenuate(ret, Head(mats))
    /\ mats' = Tail(mats)
    /\ d' = d - 1
    /\ UNCHANGED <<scene, pc, d0, ray, closest, res_p, v, nCalls, nTests, outcome, pixelVars, mirrorVars>>

\* the outermost call returns to a caller that only keeps the colour
CastDone ==
    /\ pc = "return"
    /\ d = d0
    /\ pc' = "done"
    /\ UNCHANGED <<scene, d0, castVars, pixelVars, mirrorVars>>


\* ------------------------------------------------------------------------
\* main's pixel loop (main.rs:87-115)
\* ------------------------------------------------------------------------

\* the camera ray of one sample; j1 and j2 are the two rand::random draws
CameraRay(x, y, j1, j2) ==
    Ray(V(0, 0, 0),
        Vec3(-Half + FxMul(PIXEL_SIZE, x * One) + FxMul(j1, PIXEL_SIZE),
             PIXEL_OFF_HEIGHT - FxMul(PIXEL_SIZE, y * One) + FxMul(j2, PIXEL_SIZE),
             One))

\* the f32 a Color channel holds
Channel(m, e) == Shr(m, e)

\* (255.0 * c.sqrt()) as u8: the cast truncates and saturates
Quantize(m, e) == Min(255, FxMul(255 * One, FxSqrt(Channel(m, e))) \div One)

\* for s in 0..SAMPLES_PER_PIXEL: build the ray and call
\* cast_ray_recursive(&scene, r, 0), whose locals start afresh
SampleStart ==
    /\ pc = "pixel"
    /\ s < SAMPLES_PER_PIXEL
    /\ \E j1 \in RandomF32, j2 \in RandomF32 : ray' = CameraRay(px, py, j1, j2)
    /\ d' = 0
    /\ nCalls' = 1
    /\ nTests' = 0
    /\ mats' = <<>>
    /\ closest' = None
    /\ res_p' = V(0, 0, 0)
    /\ v' = V(0, 0, 0)
    /\ ret' = BLACK
    /\ outcome' = "none"
    /\ pc' = "call"
    /\ UNCHANGED <<scene, d0, pixelVars, mirrorVars>>

\* pixel_col = pixel_col + cast_ray_recursive(&scene, r, 0)
SampleAccumulate ==
    /\ pc = "return"
    /\ d = 0
    /\ pixel_col' = ColorAdd(pixel_col, ret)
    /\ sampleSum' = ColorAdd(sampleSum, ret)
    /\ s' = s + 1
    /\ pc' = "pixel"
    /\ UNCHANGED <<scene, d0, castVars, px, py, img, mirrorVars>>

\* after the sample loop: scale by 1 / SAMPLES_PER_PIXEL and put_pixel
PutPixel ==
    /\ pc = "pixel"
    /\ s = SAMPLES_PER_PIXEL
    /\ LET ratio == FxDiv(One, SAMPLES_PER_PIXEL * One)
           col == ColorMul(pixel_col, ratio)
       IN  /\ pixel_col' = col
           /\ img' = <<Quantize(col.r, col.e), Quantize(col.g, col.e), Quantize(col.b, col.e)>>
    /\ pc' = "done"
    /\ UNCHANGED <<scene, d0, castVars, px, py, s, sampleSum, mirrorVars>>

\* ------------------------------------------------------------------------
\* Ray::mirror applied to an input (math.rs:79-85)
\* ------------------------------------------------------------------------

ApplyMirror ==
    /\ pc = "mirror"
    /\ mOut' = Mirror(mIn, mNormal)
    /\ pc' = "mirrored"
    /\ UNCHANGED <<scene, d0, castVars, pixelVars, mIn, mNormal>>

\* ------------------------------------------------------------------------
\* Scenes and inputs
\* ------------------------------------------------------------------------

\* the materials main gives its three primitives (main.rs:29-67)
MainMaterials ==
    [tri |-> Material(Color(Half, 0, Half), 2000),
     sphere |-> Material(Color(One, One, 0), Half),
     plane |-> Material(Color(One, 0, 0), 0)]

\* the same primitives with every colour and metalness changed
OtherMaterials ==
    [tri |-> Material(Color(0, One, 0), One),
     sphere |-> Material(Color(0, 0, One), 0),
     plane |-> Material(Color(Half, Half, Half), One)]

MaterialSets == {MainMaterials, OtherMaterials}

\* main's scene after to_homogeneous with its camera at (0, 1, 0) looking
\* along +Z: every point moves down by 1
MainScene(ms) ==
    <<Sphere(V(0, 0, 10), One, ms.sphere), Plane(V(0, -1, 0), V(0, 1, 0), ms.plane)>>

\* main's tri (built but left out of main's scene) in front of the floor
TriScene(ms) ==
    <<Tri(Vec3(0, 0, 15000), Vec3(Half, -One, 15000), Vec3(-Half, -One, 15000), ms.tri),
      Plane(V(0, -1, 0), V(0, 1, 0), ms.plane)>>

\* two facing planes: no path ever leaves
Corridor(ms) ==
    <<Plane(V(0, -1, 0), V(0, 1, 0), ms.plane), Plane(V(0, 1, 0), V(0, -1, 0), ms.plane)>>

Scenes ==
    {<<>>} \cup UNION {{MainScene(ms), TriScene(ms), Corridor(ms)} : ms \in MaterialSets}

\* rays cast_ray_recursive and find_closest are given
Rays ==
    {Ray(V(0, 0, 0), V(0, 0, 1)),            \* the centre of the view
     Ray(V(0, 0, 0), V(0, 0, 2)),            \* the same, not unit length
     Ray(V(0, 0, 0), V(0, 1, 0)),            \* straight up
     Ray(V(0, 0, 0), V(0, -1, 0)),           \* straight down
     Ray(V(0, 0, 0), Vec3(0, -900, One)),    \* a camera ray below the centre
     Ray(V(0, 0, 0), Vec3(0, -2000, One)),   \* a camera ray onto the floor
     Ray(V(0, 2, 0), V(0, -1, 0)),           \* from above both planes
     Ray(V(0, -1, 0), V(0, 1, 0)),           \* origin on the floor, pointing away
     Ray(V(0, 0, 9), V(0, 0, -1)),           \* origin on the sphere, pointing away
     Ray(V(0, 0, 9), V(1, 0, 0))}            \* origin on the sphere, tangent

InitCast ==
    /\ closest = None
    /\ res_p = V(0, 0, 0)
    /\ v = V(0, 0, 0)
    /\ ret = BLACK
    /\ nTests = 0
    /\ outcome = "none"
    /\ mats = <<>>

InitPixelIdle ==
    /\ px = 0
    /\ py = 0
    /\ s = 0
    /\ pixel_col = SKY_COL
    /\ sampleSum = BLACK
    /\ img = <<0, 0, 0>>

InitMirrorIdle ==
    /\ mIn = Ray(V(0, 0, 0), V(0, 0, 1))
    /\ mNormal = V(0, 1, 0)
    /\ mOut = Ray(V(0, 0, 0), V(0, 0, 1))

\* cast_ray_recursive(scene, ray, d0) called on its own
Init ==
    /\ scene \in Scenes
    /\ ray \in Rays
    /\ d0 \in {0, BOUNCE_AMOUNT}
    /\ d = d0
    /\ nCalls = 1
    /\ pc = "call"
    /\ InitCast
    /\ InitPixelIdle
    /\ InitMirrorIdle

Cast ==
    \/ CastExhausted
    \/ CastFindClosest
    \/ CastHit
    \/ CastMiss
    \/ HemisphereDraw
    \/ HemisphereReject
    \/ CastRecurse
    \/ CastReturn

Next == Cast \/ CastDone

Spec == Init /\ [][Next]_vars

\* The random source is fair to the draws the rejection loop accepts.
FairSpec ==
    Spec /\ WF_vars(Next) /\ SF_vars(HemisphereDraw /\ ~Rejected(v'))

\* main rendering one pixel: the bottom row of its own scene, or the top row
\* of the corridor

PixelInit ==
    /\ \/ scene = MainScene(MainMaterials) /\ px = 960 /\ py = 1079
       \/ scene = Corridor(MainMaterials) /\ px = 960 /\ py = 0
    /\ s = 0
    /\ pixel_col = SKY_COL
    /\ sampleSum = BLACK
    /\ img = <<0, 0, 0>>
    /\ ray = Ray(V(0, 0, 0), V(0, 0, 1))
    /\ d0 = 0
    /\ d = 0
    /\ nCalls = 0
    /\ pc = "pixel"
    /\ InitCast
    /\ InitMirrorIdle

PixelNext == SampleStart \/ Cast \/ SampleAccumulate \/ PutPixel

PixelSpec == PixelInit /\ [][PixelNext]_vars

\* Ray::mirror on its own
MirrorRays ==
    {Ray(p, dir) : p \in {V(-3, 3, 0), V(0, 0, 0)},
                   dir \in {V(1, -1, 0), V(0, -1, 0), V(3, -4, 0), V(0, 0, 2), V(1, 1, 1),
                            V(2, -2, 0), V(-1, -2, 2), V(0, 3, 4)}}

MirrorNormals == {V(0, 1, 0), V(0, 2, 0), V(1, 0, 0), V(0, 0, -1), V(0, 3, 4)}

MirrorInit ==
    /\ mIn \in MirrorRays
    /\ mNormal \in MirrorNormals
    /\ mOut = mIn
    /\ pc = "mirror"
    /\ scene = <<>>
    /\ ray = Ray(V(0, 0, 0), V(0, 0, 1))
    /\ d0 = 0
    /\ d = 0
    /\ nCalls = 0
    /\ InitCast
    /\ InitPixelIdle

MirrorNext == ApplyMirror

MirrorSpec == MirrorInit /\ [][MirrorNext]_vars

\* every ray has a direction
NonZeroDir == ray.dir # <<0, 0, 0>>

\* ------------------------------------------------------------------------
\* Properties
\* ------------------------------------------------------------------------

\* C1: a call cast_ray_recursive(scene, ray, 0) returns: d grows by exactly 1
\* on each recursive call, never exceeds BOUNCE_AMOUNT, at most BOUNCE_AMOUNT
\* recursive calls are nested, and the call is eventually done, the
\* rejection loop of random_vec_in_hemisphere included.
C1_DepthBoundedAndReturns ==
    /\ [](d0 = 0 => d <= BOUNCE_AMOUNT /\ nCalls - 1 <= BOUNCE_AMOUNT /\ nCalls - 1 >= d)
    /\ [][nCalls' # nCalls => nCalls' = nCalls + 1 /\ d' = d + 1]_vars
    /\ (d0 = 0 /\ pc = "call") ~> (pc = "done")

\* a path of BOUNCE_AMOUNT bounces has returned to the caller
C1_Witness ==
    pc = "done" /\ d0 = 0 /\ d = 0 /\ nCalls = BOUNCE_AMOUNT + 1

\* C2: called with d == BOUNCE_AMOUNT, cast_ray_recursive returns black
\* without testing the scene and without recursing.
C2_ExhaustedIsBlack ==
    (d0 = BOUNCE_AMOUNT /\ pc \in {"return", "done"}) =>
        ret = Color(0, 0, 0) /\ nTests = 0 /\ nCalls = 1 /\ mats = <<>>

\* such a call has returned although the scene holds a primitive its ray hits
C2_Witness ==
    pc = "done" /\ d0 = BOUNCE_AMOUNT /\ FindClosest(scene, ray).hit

\* the colour c halved k times
HalfPow(c, k) == Canon([c EXCEPT !.e = @ + k])

\* C9: the colour returned from depth 0 is 0.5^k times the sky gradient of
\* the last ray after k < BOUNCE_AMOUNT hits and a miss, and black after
\* BOUNCE_AMOUNT hits; no material enters it.
C9_ColourIsHalvedSky ==
    (d0 = 0 /\ pc = "done") =>
        /\ outcome = "miss" =>
              nCalls - 1 < BOUNCE_AMOUNT /\ ret = HalfPow(Sky(ray), nCalls - 1)
        /\ outcome = "exhausted" =>
              nCalls - 1 = BOUNCE_AMOUNT /\ ret = Color(0, 0, 0)

\* a path that hit three surfaces and then the sky has returned a colour
C9_Witness ==
    pc = "done" /\ d0 = 0 /\ outcome = "miss" /\ nCalls = 4 /\ ret # Color(0, 0, 0)

\* C6 as stated: against the empty scene, straight up gives white and
\* horizontal gives SKY_COL.
C6_AsStated ==
    (d0 = 0 /\ pc = "done" /\ scene = <<>>) =>
        /\ ray.dir = V(0, 1, 0) => ret = Color(One, One, One)
        /\ ray.dir = V(0, 0, 1) => ret = Color(Half, 7000, One)

\* C6, amended: against the empty scene, straight up gives SKY_COL
\* (parameter 1), horizontal gives the midpoint of white and SKY_COL
\* (parameter 0.5), and straight down gives white (parameter 0).
C6_SkyGradient ==
    (d0 = 0 /\ pc = "done" /\ scene = <<>>) =>
        /\ ray.dir = V(0, 1, 0) => ret = Color(Half, 7000, One)
        /\ ray.dir = V(0, 0, 1) => ret = Color(7500, 8500, One)
        /\ ray.dir = V(0, -1, 0) => ret = Color(One, One, One)

\* the call with the straight-up ray against the empty scene has returned
C6_Witness ==
    d0 = 0 /\ pc = "done" /\ scene = <<>> /\ ray.dir = V(0, 1, 0) /\ nTests = 1

Reverse(seq) == [k \in 1..Len(seq) |-> seq[Len(seq) + 1 - k]]

\* the two primitives of a two-primitive scene both report a hit, at
\* different distances
TwoDifferentHits ==
    /\ Len(scene) = 2
    /\ Intersect(scene[1], ray).hit
    /\ Intersect(scene[2], ray).hit
    /\ Intersect(scene[1], ray).t # Intersect(scene[2], ray).t

\* of two hits, the one with the smaller t
Nearer(h1, h2) == IF h1.t < h2.t THEN h1 ELSE h2

\* C3 as stated: with two primitives hit at different distances,
\* find_closest returns the hit with the smaller t, in either insertion order.
C3_AsStated ==
    (pc = "match" /\ TwoDifferentHits) =>
        /\ closest = Nearer(Intersect(scene[1], ray), Intersect(scene[2], ray))
        /\ FindClosest(Reverse(scene), ray) = closest

\* C3, amended: with two primitives hit at different distances, find_closest
\* returns the hit with the smaller t among those with t >= 0.001 (none when
\* both are below), and the same result in either insertion order.
C3_NearestSurvivor ==
    (pc = "match" /\ TwoDifferentHits) =>
        LET h1 == Intersect(scene[1], ray)
            h2 == Intersect(scene[2], ray)
        IN  /\ closest = IF h1.t >= HIT_MIN /\ h2.t >= HIT_MIN THEN Nearer(h1, h2)
                         ELSE IF h1.t >= HIT_MIN THEN h1
                         ELSE IF h2.t >= HIT_MIN THEN h2
                         ELSE None
            /\ FindClosest(Reverse(scene), ray) = closest

\* find_closest has chosen between two surviving hits, the nearer of which
\* was inserted second
C3_Witness ==
    /\ pc = "match"
    /\ TwoDifferentHits
    /\ Intersect(scene[1], ray).t >= HIT_MIN
    /\ Intersect(scene[2], ray).t >= HIT_MIN
    /\ Intersect(scene[2], ray).t < Intersect(scene[1], ray).t
    /\ closest = Intersect(scene[2], ray)

\* the ray starts on the primitive's surface and does not point into it
OnSurfaceAway(prim, r) ==
    CASE prim.kind = "Plane" ->
            Dot(VSub(r.pos, prim.pos), prim.norm) = 0 /\ Dot(r.dir, prim.norm) # 0
      [] prim.kind = "Sphere" ->
            /\ LengthSquared(VSub(r.pos, prim.pos)) = FxMul(prim.rad, prim.rad)
            /\ Dot(r.dir, VSub(r.pos, prim.pos)) >= 0
      [] prim.kind = "Tri" ->
            /\ Dot(VSub(r.pos, prim.a), Cross(VSub(prim.b, prim.a), VSub(prim.c, prim.a))) = 0
            /\ Dot(r.dir, Cross(VSub(prim.b, prim.a), VSub(prim.c, prim.a))) # 0

\* C4: find_closest returns none or a hit with t >= 0.001; it returns none
\* when every primitive misses or reports t < 0.001; and a ray that starts
\* on a primitive's surface, pointing away, does not get that primitive back.
C4_NoHitBelowThreshold ==
    pc = "match" =>
        /\ closest.hit => closest.t >= HIT_MIN
        /\ (\A k \in 1..Len(scene) :
                ~Intersect(scene[k], ray).hit \/ Intersect(scene[k], ray).t < HIT_MIN)
           => closest = None
        /\ \A k \in 1..Len(scene) :
                OnSurfaceAway(scene[k], ray) =>
                    ~(closest.hit /\ closest = Intersect(scene[k], ray))

\* find_closest has run for a ray that starts on a primitive which reports
\* a hit below the threshold, while another primitive is hit further on
C4_Witness ==
    /\ pc = "match"
    /\ closest.hit
    /\ \E k \in 1..Len(scene) :
          /\ OnSurfaceAway(scene[k], ray)
          /\ Intersect(scene[k], ray).hit
          /\ Intersect(scene[k], ray).t < HIT_MIN

\* the largest factor a direction is scaled by
MaxFactor == 3

\* the same hit/no-hit outcome and the same t
SameHit(h1, h2) == h1.hit = h2.hit /\ (h1.hit => h1.t = h2.t)

Scaled(r, k) == [r EXCEPT !.dir = <<k * r.dir[1], k * r.dir[2], k * r.dir[3]>>]

\* intersect of every primitive of the given kinds is unchanged when the
\* direction of the current ray is scaled
ScaleInvariant(kinds) ==
    \A k \in 1..Len(scene) : \A f \in 2..MaxFactor :
        scene[k].kind \in kinds =>
            SameHit(Intersect(scene[k], ray), Intersect(scene[k], Scaled(ray, f)))

\* C7: for Tri, Sphere and Plane alike, intersect gives the same outcome and
\* the same t for direction dir and for k * dir.
C7_ScaleInvariant == ScaleInvariant({"Tri", "Sphere", "Plane"})

\* the part of C7 that holds: Tri and Sphere, which normalize
TriSphereScaleInvariant == ScaleInvariant({"Tri", "Sphere"})

\* the primitive whose hit find_closest returned
HitIndex == CHOOSE k \in 1..Len(scene) : Intersect(scene[k], ray) = closest

\* how far the point p is from the primitive's surface (for a Tri, from its
\* plane)
SurfaceDistance(prim, p) ==
    CASE prim.kind = "Plane" -> Abs(Dot(VSub(p, prim.pos), Normalize(prim.norm)))
      [] prim.kind = "Sphere" -> Abs(Length(VSub(p, prim.pos)) - prim.rad)
      [] prim.kind = "Tri" ->
            Abs(Dot(VSub(p, prim.a), Normalize(Cross(VSub(prim.b, prim.a), VSub(prim.c, prim.a)))))

SurfaceTol == 2 * HIT_MIN

\* C10: on every hit, res_p lies on the surface of the primitive that
\* find_closest selected.
C10_HitPointOnSurface ==
    pc = "hemisphere" => SurfaceDistance(scene[HitIndex], res_p) <= SurfaceTol

\* the part of C10 that holds: hits on a Plane, which measures t along ray.dir
PlaneHitPointOnSurface ==
    (pc = "hemisphere" /\ scene[HitIndex].kind = "Plane") =>
        SurfaceDistance(scene[HitIndex], res_p) <= SurfaceTol

\* C5: the colour that is quantized is the sum of the SAMPLES_PER_PIXEL
\* colours cast_ray_recursive returned, and nothing else, divided by
\* SAMPLES_PER_PIXEL.
C5_MeanOfSamples ==
    (pc = "done" /\ s = SAMPLES_PER_PIXEL) =>
        pixel_col = ColorMul(sampleSum, FxDiv(One, SAMPLES_PER_PIXEL * One))

\* what the loop computes: the accumulator starts at SKY_COL, so the sky
\* colour is counted as one more sample
PixelIsSkyPlusSamples ==
    (pc = "done" /\ s = SAMPLES_PER_PIXEL) =>
        pixel_col = ColorMul(ColorAdd(SKY_COL, sampleSum), FxDiv(One, SAMPLES_PER_PIXEL * One))

\* d - 2 (d . n) n
Reflect(dir, n) == VSub(dir, VScale(n, FxMul(2 * One, Dot(dir, n))))

MirrorTol == 2 * EPSILON

Near(a, b) == \A i \in 1..3 : Abs(a[i] - b[i]) <= MirrorTol

====
